---- MODULE Spec2Model ----
(***************************************************************************)
(* Model of src/main.py: the hybrid TF-IDF + BM25 retrieval program.       *)
(*                                                                         *)
(* Text is a sequence of one-character strings.  Real numbers are held in  *)
(* fixed point with SCALE units per 1.0.  docIds are the code's 0-based    *)
(* indices; TLA+ sequences are 1-based, so document idx is documents[idx+1].*)
(***************************************************************************)
EXTENDS Integers, Sequences, FiniteSets, TLC

VARIABLES pc, documents, titles, vectorizer, tfidf_matrix, bm25,
          buildErr, line, searched, call, scores, results, err

vars == <<pc, documents, titles, vectorizer, tfidf_matrix, bm25,
          buildErr, line, searched, call, scores, results, err>>

(***************************************************************************)
(* Bounds of the model.                                                    *)
(***************************************************************************)
MaxRows == 2
MaxTopK == 2

(***************************************************************************)
(* Numbers.                                                                *)
(***************************************************************************)
SCALE == 1000

Min(a, b) == IF a <= b THEN a ELSE b
Max(a, b) == IF a >= b THEN a ELSE b

\* 1000 * ln(k/2) for k = 1..24: math.log as the two libraries use it.
LOG_HALVES ==
  <<-693, 0, 405, 693, 916, 1099, 1253, 1386, 1504, 1609, 1705, 1792,
    1872, 1946, 2015, 2079, 2140, 2197, 2251, 2303, 2351, 2398, 2442, 2485>>

\* ln(twice / 2) in fixed point
log_half(twice) == LOG_HALVES[twice]

RECURSIVE isqrt_between(_, _, _)
isqrt_between(n, lo, hi) ==
  IF lo >= hi THEN lo
  ELSE LET mid == (lo + hi + 1) \div 2
       IN IF mid * mid <= n THEN isqrt_between(n, mid, hi)
          ELSE isqrt_between(n, lo, mid - 1)

\* the square root, rounded up so that a normalised row never exceeds length 1
sqrt(n) ==
  LET r == isqrt_between(n, 0, Min(n, 46340))
  IN IF r * r = n THEN r ELSE r + 1

RECURSIVE SumSeq(_)
SumSeq(s) == IF s = <<>> THEN 0 ELSE Head(s) + SumSeq(Tail(s))

RECURSIVE MaxSeq(_)
MaxSeq(s) == IF Len(s) = 1 THEN s[1] ELSE Max(Head(s), MaxSeq(Tail(s)))

(***************************************************************************)
(* Characters and strings.                                                 *)
(***************************************************************************)
UPPER == <<"A","B","C","D","E","F","G","H","I","J","K","L","M",
           "N","O","P","Q","R","S","T","U","V","W","X","Y","Z">>
LOWER == <<"a","b","c","d","e","f","g","h","i","j","k","l","m",
           "n","o","p","q","r","s","t","u","v","w","x","y","z">>
DIGITS == {"0","1","2","3","4","5","6","7","8","9"}

WHITESPACE == {" ", "\t", "\n"}
WORD_CHARS == {UPPER[i] : i \in 1..26} \cup {LOWER[i] : i \in 1..26} \cup DIGITS \cup {"_"}
TO_LOWER == [c \in {UPPER[i] : i \in 1..26} |-> LOWER[CHOOSE i \in 1..26 : UPPER[i] = c]]

IsSpace(c) == c \in WHITESPACE
IsWordChar(c) == c \in WORD_CHARS
lower_char(c) == IF c \in DOMAIN TO_LOWER THEN TO_LOWER[c] ELSE c

\* str.lower()
lower(s) == [i \in 1..Len(s) |-> lower_char(s[i])]

\* str.strip(): leading and trailing whitespace removed
strip(s) ==
  LET n == Len(s)
      leading == Cardinality({i \in 1..n : \A j \in 1..i : IsSpace(s[j])})
      trailing == Cardinality({i \in 1..n : \A j \in i..n : IsSpace(s[j])})
  IN IF leading = n THEN <<>> ELSE SubSeq(s, leading + 1, n - trailing)

\* the maximal runs of wanted characters, in order: runs of word characters
\* (word = TRUE) or of non-whitespace characters (word = FALSE)
runs(s, word) ==
  LET wanted(i) == IF word THEN IsWordChar(s[i]) ELSE ~IsSpace(s[i])
      starts == {i \in 1..Len(s) : wanted(i) /\ (i = 1 \/ ~wanted(i - 1))}
      ends == {i \in 1..Len(s) : wanted(i) /\ (i = Len(s) \/ ~wanted(i + 1))}
      start(k) == CHOOSE i \in starts : Cardinality({j \in starts : j < i}) = k - 1
      end(k) == CHOOSE i \in ends : Cardinality({j \in ends : j < i}) = k - 1
  IN [k \in 1..Cardinality(starts) |-> SubSeq(s, start(k), end(k))]

\* str.split(): whitespace-separated tokens, no empty token
split(s) == runs(s, FALSE)

\* preprocess_text
preprocess_text(text) == lower(text)

\* a slice that stops one element early
slice_one_short(s, k) == SubSeq(s, 1, Max(0, Min(k, Len(s)) - 1))

\* sequence slicing seq[:k] with Python's meaning of a negative k
slice_to(s, k) ==
  IF k >= 0 THEN SubSeq(s, 1, Min(k, Len(s)))
  ELSE SubSeq(s, 1, Max(0, Len(s) + k))

rep(c, n) == [i \in 1..n |-> c]
count_in(t, toks) == Cardinality({i \in 1..Len(toks) : toks[i] = t})
SeqToSet(s) == {s[i] : i \in 1..Len(s)}

RECURSIVE SumOver(_, _)
\* sum of f[x] over the finite set S
SumOver(S, f) ==
  IF S = {} THEN 0
  ELSE LET x == CHOOSE y \in S : TRUE IN f[x] + SumOver(S \ {x}, f)

(***************************************************************************)
(* load_articles                                                           *)
(***************************************************************************)
Untitled == <<"U","n","t","i","t","l","e","d">>

RECURSIVE load_rows(_, _, _)
load_rows(rows, docs, tts) ==
  IF rows = <<>> THEN [documents |-> docs, titles |-> tts]
  ELSE LET heading == strip(Head(rows).Heading)
           content == strip(Head(rows).Article)
           combined == heading \o <<" ">> \o content
       IN IF heading = <<>> /\ content = <<>>
          THEN load_rows(Tail(rows), docs, tts)
          ELSE load_rows(Tail(rows), Append(docs, combined),
                         Append(tts, IF heading # <<>> THEN heading ELSE Untitled))

\* file = [exists |-> BOOLEAN, rows |-> sequence of CSV rows]
load_articles(file) ==
  IF ~file.exists THEN [documents |-> <<>>, titles |-> <<>>]
  ELSE load_rows(file.rows, <<>>, <<>>)

(***************************************************************************)
(* TfidfVectorizer(lowercase=True, max_features=5000, stop_words='english')*)
(***************************************************************************)
max_features == 5000

\* the members of the English stop word list that the model's texts use
ENGLISH_STOP_WORDS == { <<"t","h","e">>, <<"o","n">>, <<"i","n">> }

NoModel == [built |-> FALSE]

\* lowercase, tokens of two or more word characters, stop words removed
analyze(doc) ==
  LET toks == runs(lower(doc), TRUE)
      keep(t) == Len(t) >= 2 /\ t \notin ENGLISH_STOP_WORDS
  IN SelectSeq(toks, keep)

\* the max_features most frequent terms (all of them when they are fewer)
limit_features(terms, freq) ==
  IF Cardinality(terms) <= max_features THEN terms
  ELSE CHOOSE V \in SUBSET terms :
         /\ Cardinality(V) = max_features
         /\ \A t \in V, u \in terms \ V : freq[t] >= freq[u]

\* row / ||row||_2, a zero row left as it is
l2_normalize(row) ==
  LET norm == sqrt(SumOver(DOMAIN row, [t \in DOMAIN row |-> row[t] * row[t]]))
  IN IF norm = 0 THEN row
     ELSE [t \in DOMAIN row |-> (row[t] * SCALE) \div norm]

\* idf(t) = ln((1 + N) / (1 + df(t))) + 1
tfidf_idf(N, df) == log_half(2 * (1 + N)) - log_half(2 * (1 + df)) + SCALE

tfidf_row(vocabulary, idf, toks) ==
  l2_normalize([t \in vocabulary |-> count_in(t, toks) * idf[t]])

\* build_tfidf_model: fit_transform raises ValueError on an empty vocabulary
build_tfidf_model(docs) ==
  LET N == Len(docs)
      toks == [d \in 1..N |-> analyze(docs[d])]
      terms == UNION {SeqToSet(toks[d]) : d \in 1..N}
      freq == [t \in terms |-> SumSeq([d \in 1..N |-> count_in(t, toks[d])])]
      vocabulary == limit_features(terms, freq)
      df == [t \in vocabulary |-> Cardinality({d \in 1..N : count_in(t, toks[d]) > 0})]
      idf == [t \in vocabulary |-> tfidf_idf(N, df[t])]
  IN IF terms = {}
     THEN [err |-> "ValueError", vectorizer |-> NoModel, tfidf_matrix |-> NoModel]
     ELSE [err |-> "none",
           vectorizer |-> [built |-> TRUE, vocabulary |-> vocabulary, idf |-> idf],
           tfidf_matrix |-> [built |-> TRUE,
                             rows |-> [d \in 1..N |-> tfidf_row(vocabulary, idf, toks[d])]]]

\* vectorizer.transform([query]): terms outside the vocabulary are ignored
transform(vec, query) == tfidf_row(vec.vocabulary, vec.idf, analyze(query))

\* cosine_similarity(query_vector, tfidf_matrix).flatten()
cosine_similarity(qv, matrix) ==
  LET q == l2_normalize(qv)
  IN [d \in 1..Len(matrix.rows) |->
        LET r == l2_normalize(matrix.rows[d])
        IN SumOver(DOMAIN q, [t \in DOMAIN q |-> q[t] * r[t]]) \div SCALE]

(***************************************************************************)
(* rank_bm25.BM25Okapi(tokenized_docs) with its default parameters         *)
(***************************************************************************)
k1 == 1500
b == 750
epsilon == 250

\* idf = log(corpus_size - freq + 0.5) - log(freq + 0.5)
bm25_idf(N, freq) == log_half(2 * (N - freq) + 1) - log_half(2 * freq + 1)

\* build_bm25_model: BM25Okapi divides by the corpus size and by the number of
\* distinct words, so an empty corpus raises ZeroDivisionError
build_bm25_model(docs) ==
  LET N == Len(docs)
      tokenized_docs == [d \in 1..N |-> split(lower(docs[d]))]
      doc_len == [d \in 1..N |-> Len(tokenized_docs[d])]
      num_doc == SumSeq(doc_len)
      words == UNION {SeqToSet(tokenized_docs[d]) : d \in 1..N}
      nd == [w \in words |-> Cardinality({d \in 1..N : count_in(w, tokenized_docs[d]) > 0})]
      idf0 == [w \in words |-> bm25_idf(N, nd[w])]
      average_idf == SumOver(words, idf0) \div Cardinality(words)
      eps == (epsilon * average_idf) \div SCALE
  IN IF N = 0 \/ words = {}
     THEN [err |-> "ZeroDivisionError", bm25 |-> NoModel]
     ELSE [err |-> "none",
           bm25 |-> [built |-> TRUE,
                     corpus_size |-> N,
                     avgdl |-> (num_doc * SCALE) \div N,
                     doc_len |-> doc_len,
                     doc_freqs |-> [d \in 1..N |->
                        [w \in SeqToSet(tokenized_docs[d]) |-> count_in(w, tokenized_docs[d])]],
                     idf |-> [w \in words |-> IF idf0[w] < 0 THEN eps ELSE idf0[w]]]]

\* one query word's term of BM25Okapi.get_scores for document d
bm25_term(model, q, d) ==
  LET q_freq == IF q \in DOMAIN model.doc_freqs[d] THEN model.doc_freqs[d][q] ELSE 0
      idf == IF q \in DOMAIN model.idf THEN model.idf[q] ELSE 0
      ratio == (model.doc_len[d] * SCALE * SCALE) \div model.avgdl
      denom == q_freq * SCALE + (k1 * (SCALE - b + (b * ratio) \div SCALE)) \div SCALE
      numer == q_freq * (k1 + SCALE)
  IN (idf * ((numer * SCALE) \div denom)) \div SCALE

\* bm25.get_scores(tokenized_query): one term per query token, repeats included
get_scores(model, tokenized_query) ==
  [d \in 1..model.corpus_size |->
     SumSeq([i \in 1..Len(tokenized_query) |-> bm25_term(model, tokenized_query[i], d)])]

(***************************************************************************)
(* hybrid_search                                                           *)
(***************************************************************************)
SNIPPET_LEN == 200
ELLIPSIS == <<".", ".", ".">>
DEFAULT_TOP_K == 5

\* lines 162-165: divide by the maximum when it is positive, else keep the raw scores
normalize_bm25(bm25_scores) ==
  LET m == MaxSeq(bm25_scores)
  IN IF m > 0
     THEN [d \in 1..Len(bm25_scores) |-> (bm25_scores[d] * SCALE) \div m]
     ELSE bm25_scores

\* line 168: 0.5 * tfidf_scores + 0.5 * bm25_scores_normalized
combine(tfidf_scores, bm25_scores_normalized) ==
  [d \in 1..Len(tfidf_scores) |->
     (500 * tfidf_scores[d] + 500 * bm25_scores_normalized[d]) \div SCALE]

\* lines 151-168: the score vectors of one call
score_query(query, vec, matrix, model) ==
  LET processed_query == preprocess_text(query)
      tfidf_scores == cosine_similarity(transform(vec, processed_query), matrix)
      bm25_scores == get_scores(model, split(processed_query))
      bm25_scores_normalized == normalize_bm25(bm25_scores)
  IN [tfidf |-> tfidf_scores,
      bm25_raw |-> bm25_scores,
      bm25_norm |-> bm25_scores_normalized,
      combined |-> combine(tfidf_scores, bm25_scores_normalized)]

\* np.argsort(combined_scores): a permutation of the 0-based indices that puts the
\* scores in ascending order.  The default sort kind is not stable, so the order
\* of equal scores is whatever the build's sort routine produces.
argsort_outcomes(combined_scores) ==
  LET N == Len(combined_scores)
  IN {p \in [1..N -> 0..(N - 1)] :
        /\ \A i, j \in 1..N : i # j => p[i] # p[j]
        /\ \A i \in 1..(N - 1) : combined_scores[p[i] + 1] <= combined_scores[p[i + 1] + 1]}

\* seq[::-1]
reversed(s) == [i \in 1..Len(s) |-> s[Len(s) + 1 - i]]

\* the marker also put on a text of exactly SNIPPET_LEN characters
make_snippet_ge(content) ==
  LET snippet == strip(slice_to(content, SNIPPET_LEN))
  IN IF Len(content) >= SNIPPET_LEN THEN snippet \o ELLIPSIS ELSE snippet

\* lines 180-182
make_snippet(content) ==
  LET snippet == strip(slice_to(content, SNIPPET_LEN))
  IN IF Len(content) > SNIPPET_LEN THEN snippet \o ELLIPSIS ELSE snippet

\* lines 171-188, given the outcome of np.argsort
rank_results(combined_scores, sorted_idx, docs, tts, top_k) ==
  LET top_indices == slice_to(reversed(sorted_idx), top_k)
  IN [r \in 1..Len(top_indices) |->
        [idx |-> top_indices[r],
         title |-> tts[top_indices[r] + 1],
         snippet |-> make_snippet(docs[top_indices[r] + 1]),
         score |-> combined_scores[top_indices[r] + 1]]]

(***************************************************************************)
(* Inputs: CSV rows, console lines and queries.                            *)
(***************************************************************************)
txt_the == <<"t","h","e">>
txt_cat == <<"c","a","t">>
txt_Cat == <<"C","a","t">>
txt_Dog == <<"D","o","g">>
SP == <<" ">>

\* the rows an Articles.csv is made of
CsvRows ==
  << [Heading |-> <<"T","h","e">> \o SP \o txt_Cat,
      Article |-> txt_the \o SP \o txt_cat \o SP \o <<"s","a","t">> \o SP],
     [Heading |-> <<>>, Article |-> SP \o SP],
     [Heading |-> <<>>, Article |-> rep("x", 149)],
     [Heading |-> txt_Cat, Article |-> rep("x", 196)],
     [Heading |-> txt_Cat, Article |-> rep("x", 197)],
     [Heading |-> txt_Dog, Article |-> rep("x", 195) \o SP \o rep("y", 50)],
     [Heading |-> SP \o txt_the, Article |-> <<>>] >>

\* the rows of CsvRows at the positions in I, in their order
rows_at(I) ==
  [k \in 1..Cardinality(I) |->
     CsvRows[CHOOSE i \in I : Cardinality({j \in I : j < i}) = k - 1]]

\* Articles.csv: missing, or any selection of at most MaxRows of the rows
CsvFiles ==
  {[exists |-> FALSE, rows |-> <<>>]} \cup
  {[exists |-> TRUE, rows |-> rows_at(I)] :
     I \in {J \in SUBSET (1..Len(CsvRows)) : Cardinality(J) <= MaxRows}}

Queries ==
  { <<>>, SP \o SP, txt_the, txt_Cat, <<"z","z","z">>,
    <<"d","o","g">> \o SP \o txt_cat }

ConsoleLines ==
  { <<>>, SP \o SP, txt_the, SP \o txt_Cat, <<"z","z","z">>,
    <<"e","x","i","t">>, <<"Q","U","I","T">>, SP \o <<"q">> \o SP,
    SP \o <<"H","e","l","p">> }

TopKs == (0 - MaxTopK)..MaxTopK

ExitCommands == { <<"e","x","i","t">>, <<"q","u","i","t">>, <<"q">> }
HelpCommand == <<"h","e","l","p">>

\* the line-228 test skipped
no_documents_unchecked(docs) == FALSE

\* line 228: if not documents
no_documents(docs) == docs = <<>>

\* line 260: query.lower() in ['exit', 'quit', 'q']
is_exit(query) == lower(query) \in ExitCommands

\* the help test without the case folding
is_help_exact(query) == query = HelpCommand

\* line 267: query.lower() == 'help'
is_help(query) == lower(query) = HelpCommand

NoCall == [made |-> FALSE]
NoScores == [tfidf |-> <<>>, bm25_raw |-> <<>>, bm25_norm |-> <<>>, combined |-> <<>>]
NoBuildErr == [tfidf |-> "none", bm25 |-> "none"]

(***************************************************************************)
(* The program.                                                            *)
(***************************************************************************)
Init ==
  /\ pc = "start"
  /\ documents = <<>>
  /\ titles = <<>>
  /\ vectorizer = NoModel
  /\ tfidf_matrix = NoModel
  /\ bm25 = NoModel
  /\ buildErr = NoBuildErr
  /\ line = <<>>
  /\ searched = FALSE
  /\ call = NoCall
  /\ scores = NoScores
  /\ results = <<>>
  /\ err = "none"

\* hybrid_search(query, vectorizer, tfidf_matrix, bm25, documents, titles, top_k)
hybrid_search(query, top_k) ==
  \E sc \in {score_query(query, vectorizer, tfidf_matrix, bm25)} :
     \E sorted_idx \in argsort_outcomes(sc.combined) :
       /\ results' = rank_results(sc.combined, sorted_idx, documents, titles, top_k)
       /\ scores' = sc
       /\ call' = [made |-> TRUE, query |-> query, top_k |-> top_k]

\* main, lines 225-241: load, stop on no documents, build both models
MainStartup(file) ==
  LET loaded == load_articles(file)
      preprocessed_docs ==
        [d \in 1..Len(loaded.documents) |-> preprocess_text(loaded.documents[d])]
      tf == build_tfidf_model(preprocessed_docs)
      bm == build_bm25_model(preprocessed_docs)
  IN /\ pc = "start"
     /\ documents' = loaded.documents
     /\ titles' = loaded.titles
     /\ IF no_documents(loaded.documents)
        THEN /\ pc' = "failed"
             /\ UNCHANGED <<vectorizer, tfidf_matrix, bm25, buildErr>>
        ELSE IF tf.err # "none"
        THEN /\ pc' = "crashed"
             /\ buildErr' = [tfidf |-> tf.err, bm25 |-> "none"]
             /\ UNCHANGED <<vectorizer, tfidf_matrix, bm25>>
        ELSE IF bm.err # "none"
        THEN /\ pc' = "crashed"
             /\ buildErr' = [tfidf |-> "none", bm25 |-> bm.err]
             /\ vectorizer' = tf.vectorizer
             /\ tfidf_matrix' = tf.tfidf_matrix
             /\ UNCHANGED bm25
        ELSE /\ pc' = "ready"
             /\ vectorizer' = tf.vectorizer
             /\ tfidf_matrix' = tf.tfidf_matrix
             /\ bm25' = bm.bm25
             /\ UNCHANGED buildErr
     /\ UNCHANGED <<line, searched, call, scores, results, err>>

\* main, lines 254-294: one pass of the search loop on a line read from the
\* console; display_results may raise while it prints
MainLoop(input) ==
  LET query == strip(input)
  IN /\ pc = "ready"
     /\ line' = input
     /\ UNCHANGED <<documents, titles, vectorizer, tfidf_matrix, bm25, buildErr>>
     /\ IF is_exit(query)
        THEN /\ pc' = "done"
             /\ searched' = FALSE
             /\ err' = "none"
             /\ UNCHANGED <<call, scores, results>>
        ELSE IF is_help(query) \/ query = <<>>
        THEN /\ pc' = "ready"
             /\ searched' = FALSE
             /\ err' = "none"
             /\ UNCHANGED <<call, scores, results>>
        ELSE /\ pc' = "ready"
             /\ searched' = TRUE
             /\ hybrid_search(query, DEFAULT_TOP_K)
             /\ err' \in {"none", "Exception"}

\* main, lines 257 and 301-303: input() raises an Exception (EOFError at the end
\* of the input); the handler reports it and the loop goes on
MainInputError ==
  /\ pc = "ready"
  /\ err' = "Exception"
  /\ searched' = FALSE
  /\ UNCHANGED <<pc, documents, titles, vectorizer, tfidf_matrix, bm25, buildErr,
                 line, call, scores, results>>

\* main, lines 296-300: KeyboardInterrupt ends the loop
MainInterrupt ==
  /\ pc = "ready"
  /\ pc' = "done"
  /\ err' = "KeyboardInterrupt"
  /\ searched' = FALSE
  /\ UNCHANGED <<documents, titles, vectorizer, tfidf_matrix, bm25, buildErr,
                 line, call, scores, results>>

\* a caller of the module's functions builds the two models from a loaded corpus
\* as main does (lines 226-241), each build reporting its own exception
ApiBuild(file) ==
  LET loaded == load_articles(file)
      preprocessed_docs ==
        [d \in 1..Len(loaded.documents) |-> preprocess_text(loaded.documents[d])]
      tf == build_tfidf_model(preprocessed_docs)
      bm == build_bm25_model(preprocessed_docs)
  IN /\ pc = "start"
     /\ documents' = loaded.documents
     /\ titles' = loaded.titles
     /\ vectorizer' = tf.vectorizer
     /\ tfidf_matrix' = tf.tfidf_matrix
     /\ bm25' = bm.bm25
     /\ buildErr' = [tfidf |-> tf.err, bm25 |-> bm.err]
     /\ pc' = IF tf.err = "none" /\ bm.err = "none" THEN "api_ready" ELSE "api_error"
     /\ UNCHANGED <<line, searched, call, scores, results, err>>

\* the caller invokes hybrid_search once with its own query and top_k
ApiSearch(query, top_k) ==
  /\ pc = "api_ready"
  /\ pc' = "api_done"
  /\ hybrid_search(query, top_k)
  /\ UNCHANGED <<documents, titles, vectorizer, tfidf_matrix, bm25, buildErr,
                 line, searched, err>>

\* each driver's guard is stated before its inputs are enumerated
Next ==
  \/ pc = "start" /\ \E file \in CsvFiles : MainStartup(file)
  \/ pc = "ready" /\ \E input \in ConsoleLines : MainLoop(input)
  \/ MainInputError
  \/ MainInterrupt
  \/ pc = "start" /\ \E file \in CsvFiles : ApiBuild(file)
  \/ pc = "api_ready" /\ \E query \in Queries, top_k \in TopKs : ApiSearch(query, top_k)

Spec == Init /\ [][Next]_vars

(***************************************************************************)
(* Properties.                                                             *)
(***************************************************************************)
N == Len(documents)
Returned == 1..Len(results)
QueryIsBlank == strip(call.query) = <<>>

\* the query shares no token with any document, under either tokenizer
NoOverlap ==
  /\ SeqToSet(analyze(call.query)) \cap vectorizer.vocabulary = {}
  /\ SeqToSet(split(lower(call.query))) \cap DOMAIN bm25.idf = {}

\* C1: the list returned by hybrid_search for top_k >= 0 is sorted by combined
\* score descending, equal scores in ascending order of docId
C1_SortedTiesByDocId ==
  (call.made /\ call.top_k >= 0) =>
    \A i, j \in Returned :
      i < j => \/ results[i].score > results[j].score
               \/ /\ results[i].score = results[j].score
                  /\ results[i].idx < results[j].idx

\* C2: a call with top_k < 0 is rejected (InvalidArgument), so it returns no
\* ranked results
C2_NegativeTopKRejected ==
  (call.made /\ call.top_k < 0) => results = <<>>

\* C3: for a non-empty query and top_k >= 0 the result has min(top_k, N) entries
\* with distinct docIds, in ranked order; all N documents when top_k >= N and
\* none when top_k = 0
C3_TopKCount ==
  (call.made /\ call.top_k >= 0 /\ call.query # <<>>) =>
    /\ Len(results) = Min(call.top_k, N)
    /\ \A i \in Returned : results[i].idx \in 0..(N - 1)
    /\ \A i, j \in Returned : i # j => results[i].idx # results[j].idx
    /\ \A i \in Returned : results[i].score = scores.combined[results[i].idx + 1]
    /\ \A i, j \in Returned : i < j => results[i].score >= results[j].score
    /\ call.top_k >= N => {results[i].idx : i \in Returned} = 0..(N - 1)
    /\ call.top_k = 0 => results = <<>>

\* C3 witness: a non-empty query over two or more documents, top_k >= N, all returned
C3_Witness ==
  /\ call.made /\ call.query # <<>>
  /\ N >= 2 /\ call.top_k >= N /\ Len(results) = N

\* C4: a call with an empty or whitespace-only query and top_k >= 0 returns an
\* empty sequence
C4_BlankQueryEmpty ==
  (call.made /\ call.top_k >= 0 /\ QueryIsBlank) => results = <<>>

\* C5: every combined score, and every returned score, lies in [0, 1]
C5_ScoreInUnitInterval ==
  call.made =>
    /\ \A d \in 1..N : 0 <= scores.combined[d] /\ scores.combined[d] <= SCALE
    /\ \A i \in Returned : 0 <= results[i].score /\ results[i].score <= SCALE

\* C6: over an empty document sequence the build fails explicitly (main stops
\* with its failure message; each build function raises), neither model is
\* produced, and no search ever runs against zero documents
C6_EmptyCorpusNoIndex ==
  (pc # "start" /\ documents = <<>>) =>
    /\ pc \in {"failed", "api_error"}
    /\ pc = "api_error" => (buildErr.tfidf # "none" /\ buildErr.bm25 # "none")
    /\ vectorizer = NoModel /\ tfidf_matrix = NoModel /\ bm25 = NoModel
    /\ ~call.made /\ ~searched /\ results = <<>>

\* C6 witness: both build functions were called on an empty sequence and raised
C6_Witness ==
  /\ documents = <<>> /\ pc = "api_error"
  /\ buildErr = [tfidf |-> "ValueError", bm25 |-> "ZeroDivisionError"]

\* C7: for a query sharing no token with any document every combined score is 0
\* and the returned list is in ascending docId order
C7_NoOverlapAscending ==
  (call.made /\ call.top_k >= 0 /\ NoOverlap) =>
    /\ \A d \in 1..N : scores.combined[d] = 0
    /\ \A i \in Returned : results[i].idx = i - 1

\* body is prefix without its leading and trailing whitespace
IsTrimOf(body, prefix) ==
  IF body = <<>> THEN \A i \in 1..Len(prefix) : IsSpace(prefix[i])
  ELSE /\ ~IsSpace(body[1]) /\ ~IsSpace(body[Len(body)])
       /\ \E lead \in 0..(Len(prefix) - Len(body)) :
            /\ \A i \in 1..lead : IsSpace(prefix[i])
            /\ \A i \in 1..Len(body) : prefix[lead + i] = body[i]
            /\ \A i \in (lead + Len(body) + 1)..Len(prefix) : IsSpace(prefix[i])

\* C8: every returned snippet is the first 200 characters of the original-case
\* document text, trimmed, followed by the ellipsis marker exactly when the text
\* is longer than 200 characters
C8_Snippet ==
  \A r \in Returned :
    LET text == documents[results[r].idx + 1]
        snippet == results[r].snippet
        prefix == [i \in 1..Min(Len(text), 200) |-> text[i]]
        marked == Len(text) > 200
        body == IF marked THEN [i \in 1..(Len(snippet) - 3) |-> snippet[i]] ELSE snippet
    IN /\ marked => /\ Len(snippet) >= 3
                    /\ \A i \in 1..3 : snippet[Len(snippet) - 3 + i] = "."
       /\ IsTrimOf(body, prefix)

\* C8 witness: a 150-character text returned without the marker and a
\* 250-character text returned as a trimmed 200-character prefix with it
C8_Witness ==
  /\ \E r \in Returned :
       /\ Len(documents[results[r].idx + 1]) = 150
       /\ Len(results[r].snippet) = 149
  /\ \E r \in Returned :
       /\ Len(documents[results[r].idx + 1]) = 250
       /\ Len(results[r].snippet) = 202
       /\ results[r].snippet[202] = "."

\* C9: with m the maximum raw BM25 score, the normalized score is raw/m when
\* m > 0 and 0 for every document otherwise, so it is never negative
C9_Bm25Normalized ==
  call.made =>
    LET m == MaxSeq(scores.bm25_raw)
    IN /\ m > 0 => \A d \in 1..N :
                     scores.bm25_norm[d] = (scores.bm25_raw[d] * SCALE) \div m
       /\ m <= 0 => \A d \in 1..N : scores.bm25_norm[d] = 0
       /\ \A d \in 1..N : scores.bm25_norm[d] >= 0

\* C10: a pass of the console loop ends the loop only on an exit command or a
\* keyboard interrupt, otherwise the loop goes on; hybrid_search is called only
\* for a non-empty line that is not 'help'; a caught exception neither ends the
\* loop nor changes the models, documents or titles
C10_LoopStep ==
  (pc = "ready") =>
    /\ UNCHANGED <<documents, titles, vectorizer, tfidf_matrix, bm25>>
    /\ pc' \in {"ready", "done"}
    /\ pc' = "done" <=>
         (err' = "KeyboardInterrupt" \/ lower(strip(line')) \in ExitCommands)
    /\ searched' =>
         /\ strip(line') # <<>>
         /\ lower(strip(line')) # HelpCommand
         /\ call' = [made |-> TRUE, query |-> strip(line'), top_k |-> DEFAULT_TOP_K]
    /\ ~searched' => UNCHANGED <<call, scores, results>>
    /\ err' = "Exception" => pc' = "ready"

C10_ConsoleLoop == [][C10_LoopStep]_vars

\* C10 witness: display_results raised after a search and the loop is still running
C10_Witness == pc = "ready" /\ searched /\ err = "Exception"

====
